---- MODULE Spec2Model ----
(***************************************************************************)
(* Model of src/auth.py: class AuthManager.                                *)
(*                                                                         *)
(* One coordinator instance.  Its top-level operations are                  *)
(* ensure_authenticated (a coroutine: one action per await point),          *)
(* _start_auth_server_if_available and stop.  The remote session, the       *)
(* file system, subprocess.Popen, webbrowser.open and Popen.terminate are   *)
(* the environment: each of their outcomes is an input drawn with \E.       *)
(*                                                                         *)
(* Texts are sequences of tokens; the marker "Authenticated" is the two     *)
(* tokens <<"Authen", "ticated">>, so that a text can hold a part of the    *)
(* marker, or the two parts separated by a newline.                         *)
(*                                                                         *)
(* Time is counted in ticks from the beginning of the call.  The clock is   *)
(* first read on line 129, after the "authenticate" call, which takes a     *)
(* fixed time; after that the poll sleeps and the polled remote calls       *)
(* advance it.                                                              *)
(***************************************************************************)
EXTENDS Integers, Sequences, FiniteSets, Bags, TLC

\* ------------------------------------------------------------------ bounds
MaxTimeout == 3        \* timeout_seconds ranges over -1 .. MaxTimeout
MaxPollInterval == 2   \* poll_interval_seconds ranges over 1 .. MaxPollInterval
MaxCallDur == 1        \* a polled remote call takes 0 .. MaxCallDur ticks
MaxProcs == 2          \* at most MaxProcs helper processes run at once
AuthCallDur == 1       \* the "authenticate" call takes AuthCallDur ticks
MaxFrags == 3          \* a response has at most MaxFrags content fragments

\* self.auth_server_process is None, or a Popen object, which the model
\* identifies with the state of its child process: "running" or "exited".
NoProc == "None"

VARIABLES
    timeout_seconds,        \* self.timeout_seconds
    poll_interval_seconds,  \* self.poll_interval_seconds
    start_auth_server,      \* self.start_auth_server
    browser_open,           \* self.browser_open
    auth_server_process,    \* self.auth_server_process: NoProc, "running" or "exited"
    orphans,                \* the running helper processes no handle refers to
    op,                     \* the top-level operation in progress or last completed
    pc,                     \* position in that operation
    result,                 \* how it ended: "none", "returned", "TimeoutError", "Exception"
    status_text,            \* local status_text of ensure_authenticated
    now,                    \* time.time()
    start,                  \* local start of ensure_authenticated
    call_dur,               \* how long the latest polled remote call took
    effects,                \* bag: what the operation did to / got from the environment
    log,                    \* bag: the lines the operation printed, by kind
    args,                   \* the keyword arguments the constructor was called with
    environ,                \* os.environ
    popen_env,              \* the env argument of the latest subprocess.Popen call
    response,               \* the response whose content _contents_to_text is applied to
    extracted               \* what _contents_to_text returned

vars == <<timeout_seconds, poll_interval_seconds, start_auth_server, browser_open,
          auth_server_process, orphans, op, pc, result, status_text, now, start,
          call_dur, effects, log, args, environ, popen_env, response, extracted>>

config == <<timeout_seconds, poll_interval_seconds, start_auth_server, browser_open>>

\* ------------------------------------------------------------------ texts
NL == "\n"
SP == " "
MARKER == <<"Authen", "ticated">>
SCHEME == "http://"

IsSpace(ch) == ch \in {NL, SP}

\* needle in haystack (Python's `in` on str)
Contains(haystack, needle) ==
    \E i \in 0 .. (Len(haystack) - Len(needle)) :
        SubSeq(haystack, i + 1, i + Len(needle)) = needle

RECURSIVE Join(_)
\* "\n".join(parts)
Join(parts) ==
    IF parts = <<>> THEN <<>>
    ELSE IF Len(parts) = 1 THEN Head(parts)
    ELSE Head(parts) \o <<NL>> \o Join(Tail(parts))

\* Content fragments.  style "attr": an object with attributes; "dict": a mapping.
\* type is the "type" attribute / key ("none" when absent); has_text says whether
\* the "text" attribute / key is present.
Frag(style, type, has_text, text) ==
    [style |-> style, type |-> type, has_text |-> has_text, text |-> text]

RECURSIVE TextParts_blank_for_other(_)
\* mutant: a fragment that is not kept still adds an empty part
TextParts_blank_for_other(contents) ==
    IF contents = <<>> THEN <<>>
    ELSE LET c == Head(contents)
             rest == TextParts_blank_for_other(Tail(contents))
         IN  IF c.style = "attr" /\ c.type = "text" /\ c.has_text
                 THEN <<c.text>> \o rest
             ELSE IF c.style = "dict" /\ c.type = "text"
                 THEN <<IF c.has_text THEN c.text ELSE <<>>>> \o rest
             ELSE <<<<>>>> \o rest

RECURSIVE TextParts(_)
\* the list `parts` built by the loop of _contents_to_text
TextParts(contents) ==
    IF contents = <<>> THEN <<>>
    ELSE LET c == Head(contents)
             rest == TextParts(Tail(contents))
         IN  IF c.style = "attr" /\ c.type = "text" /\ c.has_text
                 THEN <<c.text>> \o rest
             ELSE IF c.style = "dict" /\ c.type = "text"
                 THEN <<IF c.has_text THEN c.text ELSE <<>>>> \o rest
             ELSE rest

\* A response is [has_content, content]; getattr(resp, "content", None) is None
\* when has_content is FALSE, and `contents or []` is then the empty list.
_contents_to_text(resp) ==
    Join(TextParts(IF resp.has_content THEN resp.content ELSE <<>>))

\* mutant: the text is compared with the marker instead of searched for it
IsAuthenticated_equals(text) == text = MARKER

\* status_text and "Authenticated" in status_text
IsAuthenticated(text) == text # <<>> /\ Contains(text, MARKER)

\* re.search(r"https?://[^\s]+", text): a scheme followed by a non-space character
HasUrl(text) ==
    \E i \in 1 .. (Len(text) - 1) : text[i] = SCHEME /\ ~IsSpace(text[i + 1])

\* ------------------------------------------------------------------ configuration
\* Strings of the environment are sequences of characters.
Str180 == <<"1", "8", "0">>
Str2 == <<"2">>
StrTrue == <<"t", "r", "u", "e">>
StrFalse == <<"f", "a", "l", "s", "e">>

\* An optional value: a keyword argument that is None or given, an environment
\* variable that is unset or set.
NoArg == [given |-> FALSE]
Arg(v) == [given |-> TRUE, value |-> v]
Unset == [given |-> FALSE, value |-> <<>>]
SetTo(s) == [given |-> TRUE, value |-> s]

AUTH_TIMEOUT_SECONDS == "AUTH_TIMEOUT_SECONDS"
AUTH_POLL_INTERVAL_SECONDS == "AUTH_POLL_INTERVAL_SECONDS"
START_AUTH_SERVER == "START_AUTH_SERVER"
BROWSER_OPEN == "BROWSER_OPEN"
OUTLOOK_CLIENT_ID == "OUTLOOK_CLIENT_ID"
OUTLOOK_CLIENT_SECRET == "OUTLOOK_CLIENT_SECRET"
MS_CLIENT_ID == "MS_CLIENT_ID"
MS_CLIENT_SECRET == "MS_CLIENT_SECRET"
PATH == "PATH"

ConfigNames ==
    {AUTH_TIMEOUT_SECONDS, AUTH_POLL_INTERVAL_SECONDS, START_AUTH_SERVER, BROWSER_OPEN}
CredentialNames ==
    {OUTLOOK_CLIENT_ID, OUTLOOK_CLIENT_SECRET, MS_CLIENT_ID, MS_CLIENT_SECRET}
EnvNames == ConfigNames \cup CredentialNames \cup {PATH}

\* os.getenv(name, default) in the environment env
getenv(env, name, default) ==
    IF env[name].given THEN env[name].value ELSE default

Digits == <<"0", "1", "2", "3", "4", "5", "6", "7", "8", "9">>
IsDigit(ch) == \E d \in 1 .. 10 : Digits[d] = ch
DigitValue(ch) == (CHOOSE d \in 1 .. 10 : Digits[d] = ch) - 1

RECURSIVE Strip(_)
\* str.strip(): int() and float() ignore white space around the number
Strip(s) ==
    IF s = <<>> THEN s
    ELSE IF Head(s) = SP THEN Strip(Tail(s))
    ELSE IF s[Len(s)] = SP THEN Strip(SubSeq(s, 1, Len(s) - 1))
    ELSE s

RECURSIVE Decimal(_)
\* the value of a run of digits
Decimal(ds) ==
    IF ds = <<>> THEN 0
    ELSE 10 * Decimal(SubSeq(ds, 1, Len(ds) - 1)) + DigitValue(ds[Len(ds)])

AllDigits(s) == s # <<>> /\ \A i \in 1 .. Len(s) : IsDigit(s[i])

\* a number read from a string: [ok, value]; ok is FALSE when the conversion
\* raises ValueError
Signed(s, digits) ==
    IF Head(s) = "-" THEN [ok |-> TRUE, value |-> 0 - Decimal(digits)]
    ELSE [ok |-> TRUE, value |-> Decimal(digits)]

NotANumber == [ok |-> FALSE, value |-> 0]

\* int(s) for a string s: optional white space, an optional sign, digits
int(s) ==
    LET t == Strip(s)
        u == IF t # <<>> /\ Head(t) \in {"-", "+"} THEN Tail(t) ELSE t
    IN  IF AllDigits(u) THEN Signed(t, u) ELSE NotANumber

\* float(s) for a string s, on the strings whose value is a whole number: as
\* int(s), and the digits may be followed by a point and zeros
float(s) ==
    LET t == Strip(s)
        u == IF t # <<>> /\ Head(t) \in {"-", "+"} THEN Tail(t) ELSE t
        dot == IF \E i \in 1 .. Len(u) : u[i] = "."
                  THEN CHOOSE i \in 1 .. Len(u) : u[i] = "." /\ \A j \in 1 .. (i - 1) : u[j] # "."
                  ELSE Len(u) + 1
        whole == SubSeq(u, 1, dot - 1)
        fraction == SubSeq(u, dot + 1, Len(u))
    IN  IF AllDigits(whole) /\ \A i \in 1 .. Len(fraction) : fraction[i] = "0"
            THEN Signed(t, whole)
        ELSE NotANumber

lower_char(ch) ==
    CASE ch = "F" -> "f"
      [] ch = "A" -> "a"
      [] ch = "L" -> "l"
      [] ch = "S" -> "s"
      [] ch = "E" -> "e"
      [] OTHER -> ch

\* str.lower()
lower(s) == [i \in 1 .. Len(s) |-> lower_char(s[i])]

\* mutant: the value of the variable is compared as it is, without .lower()
EnvFlag_case_sensitive(env, name) == getenv(env, name, StrTrue) # StrFalse

\* os.getenv(name, "true").lower() != "false"   (lines 40 and 45)
EnvFlag(env, name) == lower(getenv(env, name, StrTrue)) # StrFalse

\* Lines 29-48 with the keyword arguments a in the environment env.  Each
\* conditional expression evaluates one branch only: the environment is not read
\* for an option whose argument is given.  int(v) of an int v, float(v) of a
\* number v and bool(v) of a bool v are v.
__init__(a, env) ==
    LET t == IF a.timeout_seconds.given
                 THEN [ok |-> TRUE, value |-> a.timeout_seconds.value]
                 ELSE int(getenv(env, AUTH_TIMEOUT_SECONDS, Str180))
        p == IF a.poll_interval_seconds.given
                 THEN [ok |-> TRUE, value |-> a.poll_interval_seconds.value]
                 ELSE float(getenv(env, AUTH_POLL_INTERVAL_SECONDS, Str2))
    IN  [ raised |-> ~t.ok \/ ~p.ok,
          timeout_seconds |-> t.value,
          poll_interval_seconds |-> p.value,
          start_auth_server |->
              IF a.start_auth_server.given THEN a.start_auth_server.value
              ELSE EnvFlag(env, START_AUTH_SERVER),
          browser_open |->
              IF a.browser_open.given THEN a.browser_open.value
              ELSE EnvFlag(env, BROWSER_OPEN) ]

\* ------------------------------------------------------------------ inputs
Text(t) == Frag("attr", "text", TRUE, t)
DictText(t) == Frag("dict", "text", TRUE, t)
IMAGE == Frag("attr", "image", FALSE, <<>>)
DictNoText == Frag("dict", "text", FALSE, <<>>)

\* What a remote call may do: raise, or return a response.
Raised == [raised |-> TRUE, has_content |-> FALSE, content |-> <<>>]
NoContent == [raised |-> FALSE, has_content |-> FALSE, content |-> <<>>]
Resp(contents) == [raised |-> FALSE, has_content |-> TRUE, content |-> contents]

\* Answers of "check-auth-status":
\*   no content; "Authenticated"; "Authen\nticated"; "x Authenticated"
StatusOutcomes ==
    { Raised,
      NoContent,
      Resp(<<IMAGE, Text(MARKER)>>),
      Resp(<<Text(<<"Authen">>), DictText(<<"ticated">>)>>),
      Resp(<<DictNoText, DictText(<<"x", SP>> \o MARKER)>>) }

\* Answers of "authenticate":
\*   no content; "x http://x"; "http://\nx"; "Authenticated"
AuthenticateOutcomes ==
    { Raised,
      NoContent,
      Resp(<<Text(<<"x", SP, SCHEME, "x">>)>>),
      Resp(<<Text(<<SCHEME>>), Text(<<"x">>)>>),
      Resp(<<Text(MARKER)>>) }

Timeouts == (0 - 1) .. MaxTimeout
PollIntervals == 1 .. MaxPollInterval
CallDurs == 0 .. MaxCallDur

\* ------------------------------------------------------------------ bags
RECURSIVE AddAll(_, _)
AddAll(bag, events) ==
    IF events = <<>> THEN bag
    ELSE AddAll(bag (+) SetToBag({Head(events)}), Tail(events))

Count(bag, e) == CopiesIn(e, bag)

\* effects
CALL_STATUS == "call check-auth-status {}"
CALL_AUTHENTICATE == "call authenticate {force: True}"
RAISE_STATUS == "raise check-auth-status"
RAISE_AUTHENTICATE == "raise authenticate"
LAUNCH == "_start_auth_server_if_available"
EXISTS == "os.path.exists"
POPEN == "subprocess.Popen"
RAISE_POPEN == "raise subprocess.Popen"
SETTLE == "time.sleep(0.5)"
BROWSER == "webbrowser.open"
RAISE_BROWSER == "raise webbrowser.open"
SLEEP == "asyncio.sleep"
TERMINATE == "terminate"
RAISE_TERMINATE == "raise terminate"

\* log lines, by their fixed first argument
LOG_STATUS == "Authentication status:"
LOG_CHECK_FAILED == "Warning: check-auth-status failed:"
LOG_STARTING == "Starting local auth server:"
LOG_START_FAILED == "Failed to start auth server:"
LOG_AUTH_RESPONSE == "Authenticate tool response:"
LOG_OPENING == "Opening authentication URL:"
LOG_BROWSER_FAILED == "Could not open browser automatically:"
LOG_NO_URL == "Could not find authentication URL in tool response."
LOG_AUTH_FAILED == "Error calling authenticate tool:"
LOG_COMPLETED == "Authentication completed:"
LOG_WAITING == "Waiting for authentication..."
LOG_POLL_FAILED == "Polling error:"

\* the lines printed by an except clause
WarningLines ==
    {LOG_CHECK_FAILED, LOG_START_FAILED, LOG_BROWSER_FAILED, LOG_AUTH_FAILED,
     LOG_POLL_FAILED}

RECURSIVE SumOver(_, _)
SumOver(bag, S) ==
    IF S = {} THEN 0
    ELSE LET e == CHOOSE x \in S : TRUE
         IN  Count(bag, e) + SumOver(bag, S \ {e})

Warnings == SumOver(log, WarningLines)

\* ------------------------------------------------------------------ __init__
\* The coordinator was constructed with every option given as an argument, in an
\* environment that sets none of the variables.
Init ==
    /\ args \in [ timeout_seconds : {Arg(t) : t \in Timeouts},
                  poll_interval_seconds : {Arg(p) : p \in PollIntervals},
                  start_auth_server : {Arg(b) : b \in BOOLEAN},
                  browser_open : {Arg(b) : b \in BOOLEAN} ]
    /\ environ = [n \in EnvNames |-> Unset]
    /\ popen_env = [n \in EnvNames |-> Unset]
    /\ response = NoContent
    /\ extracted = <<>>
    /\ timeout_seconds = __init__(args, environ).timeout_seconds
    /\ poll_interval_seconds = __init__(args, environ).poll_interval_seconds
    /\ start_auth_server = __init__(args, environ).start_auth_server
    /\ browser_open = __init__(args, environ).browser_open
    /\ auth_server_process = NoProc
    /\ orphans = 0
    /\ op = "__init__"
    /\ pc = "done"
    /\ result = "returned"
    /\ status_text = <<>>
    /\ now = 0
    /\ start = 0
    /\ call_dur = 0
    /\ effects = EmptyBag
    /\ log = EmptyBag

\* the helper processes this coordinator spawned that are running
LiveCount(proc, orph) == orph + (IF proc = "running" THEN 1 ELSE 0)

Live == LiveCount(auth_server_process, orphans)

\* ------------------------------------------------------------------ helper launch
\* mutant: a handle whose process has exited counts as no handle (the helper is
\* restarted)
_start_auth_server_restarting(proc, orph, exists, spawn_ok) ==
    IF proc = "running"
        THEN [process |-> proc, orphans |-> orph, raised |-> FALSE,
              effects |-> <<LAUNCH>>, log |-> <<>>]
    ELSE IF ~exists
        THEN [process |-> proc, orphans |-> orph, raised |-> FALSE,
              effects |-> <<LAUNCH, EXISTS>>, log |-> <<>>]
    ELSE IF spawn_ok
        THEN [process |-> "running", orphans |-> orph, raised |-> FALSE,
              effects |-> <<LAUNCH, EXISTS, POPEN, SETTLE>>,
              log |-> <<LOG_STARTING>>]
    ELSE [process |-> proc, orphans |-> orph, raised |-> FALSE,
          effects |-> <<LAUNCH, EXISTS, POPEN, RAISE_POPEN>>,
          log |-> <<LOG_STARTING, LOG_START_FAILED>>]

\* mutant: lines 79-80 are missing, an exception of Popen leaves the method
_start_auth_server_uncaught(proc, orph, exists, spawn_ok) ==
    IF proc # NoProc
        THEN [process |-> proc, orphans |-> orph, raised |-> FALSE,
              effects |-> <<LAUNCH>>, log |-> <<>>]
    ELSE IF ~exists
        THEN [process |-> proc, orphans |-> orph, raised |-> FALSE,
              effects |-> <<LAUNCH, EXISTS>>, log |-> <<>>]
    ELSE IF spawn_ok
        THEN [process |-> "running", orphans |-> orph, raised |-> FALSE,
              effects |-> <<LAUNCH, EXISTS, POPEN, SETTLE>>,
              log |-> <<LOG_STARTING>>]
    ELSE [process |-> proc, orphans |-> orph, raised |-> TRUE,
          effects |-> <<LAUNCH, EXISTS, POPEN, RAISE_POPEN>>,
          log |-> <<LOG_STARTING>>]

\* _start_auth_server_if_available with self.auth_server_process = proc and orph
\* orphans, the script present or not, Popen succeeding or raising.  The result:
\* the new handle, the orphans, the effects and log lines in order, and whether
\* an exception leaves the method.
_start_auth_server_if_available(proc, orph, exists, spawn_ok) ==
    IF proc # NoProc
        THEN [process |-> proc, orphans |-> orph, raised |-> FALSE,
              effects |-> <<LAUNCH>>, log |-> <<>>]
    ELSE IF ~exists
        THEN [process |-> proc, orphans |-> orph, raised |-> FALSE,
              effects |-> <<LAUNCH, EXISTS>>, log |-> <<>>]
    ELSE IF spawn_ok
        THEN [process |-> "running", orphans |-> orph, raised |-> FALSE,
              effects |-> <<LAUNCH, EXISTS, POPEN, SETTLE>>,
              log |-> <<LOG_STARTING>>]
    ELSE [process |-> proc, orphans |-> orph, raised |-> FALSE,
          effects |-> <<LAUNCH, EXISTS, POPEN, RAISE_POPEN>>,
          log |-> <<LOG_STARTING, LOG_START_FAILED>>]

\* Popen can give a new child only while fewer than MaxProcs run.
CanSpawn == Live < MaxProcs

\* ------------------------------------------------------------------ stop
\* mutant: lines 84 and 86-87 are missing, an exception of terminate() leaves
\* stop() before line 88
stop_uncaught(proc, orph, term_ok) ==
    IF proc # NoProc
        THEN [process |-> IF term_ok THEN NoProc ELSE proc,
              orphans |-> orph,
              raised |-> ~term_ok,
              effects |-> IF term_ok THEN <<TERMINATE>>
                          ELSE <<TERMINATE, RAISE_TERMINATE>>]
    ELSE [process |-> proc, orphans |-> orph, raised |-> FALSE, effects |-> <<>>]

\* stop() with self.auth_server_process = proc; terminate() succeeding (a running
\* child exits) or raising (the child is left as it is, and nothing refers to it
\* once the handle is cleared).
stop(proc, orph, term_ok) ==
    IF proc # NoProc
        THEN [process |-> NoProc,
              orphans |-> IF ~term_ok /\ proc = "running" THEN orph + 1 ELSE orph,
              raised |-> FALSE,
              effects |-> IF term_ok THEN <<TERMINATE>>
                          ELSE <<TERMINATE, RAISE_TERMINATE>>]
    ELSE [process |-> proc, orphans |-> orph, raised |-> FALSE, effects |-> <<>>]

\* ------------------------------------------------------------------ phases 1, 3, 4
\* mutant: line 103 is `pass`, the failure of the initial check is not logged
InitialCheckPhase_silent(r) ==
    IF r.raised
        THEN [returns |-> FALSE, raised |-> FALSE, assigns |-> FALSE, text |-> <<>>,
              effects |-> <<CALL_STATUS, RAISE_STATUS>>,
              log |-> <<>>]
    ELSE [returns |-> IsAuthenticated(_contents_to_text(r)), raised |-> FALSE,
          assigns |-> TRUE, text |-> _contents_to_text(r),
          effects |-> <<CALL_STATUS>>,
          log |-> <<LOG_STATUS>>]

\* Lines 95-103 given the outcome r of the "check-auth-status" call: whether the
\* coroutine returns, whether an exception leaves it, whether status_text is
\* assigned and to what, the effects and the log lines.
InitialCheckPhase(r) ==
    IF r.raised
        THEN [returns |-> FALSE, raised |-> FALSE, assigns |-> FALSE, text |-> <<>>,
              effects |-> <<CALL_STATUS, RAISE_STATUS>>,
              log |-> <<LOG_CHECK_FAILED>>]
    ELSE [returns |-> IsAuthenticated(_contents_to_text(r)), raised |-> FALSE,
          assigns |-> TRUE, text |-> _contents_to_text(r),
          effects |-> <<CALL_STATUS>>,
          log |-> <<LOG_STATUS>>]

\* mutant: line 118 is missing, the browser is opened whatever browser_open is
AuthenticatePhase_always_opens(r, open_ok, bo) ==
    IF r.raised
        THEN [raised |-> FALSE,
              effects |-> <<CALL_AUTHENTICATE, RAISE_AUTHENTICATE>>,
              log |-> <<LOG_AUTH_FAILED>>]
    ELSE IF ~HasUrl(_contents_to_text(r))
        THEN [raised |-> FALSE,
              effects |-> <<CALL_AUTHENTICATE>>,
              log |-> <<LOG_AUTH_RESPONSE, LOG_NO_URL>>]
    ELSE IF open_ok
        THEN [raised |-> FALSE,
              effects |-> <<CALL_AUTHENTICATE, BROWSER>>,
              log |-> <<LOG_AUTH_RESPONSE, LOG_OPENING>>]
    ELSE [raised |-> FALSE,
          effects |-> <<CALL_AUTHENTICATE, BROWSER, RAISE_BROWSER>>,
          log |-> <<LOG_AUTH_RESPONSE, LOG_OPENING, LOG_BROWSER_FAILED>>]

\* Lines 110-126 given the outcome r of the "authenticate" call, webbrowser.open
\* succeeding or raising, and self.browser_open.
AuthenticatePhase(r, open_ok, bo) ==
    IF r.raised
        THEN [raised |-> FALSE,
              effects |-> <<CALL_AUTHENTICATE, RAISE_AUTHENTICATE>>,
              log |-> <<LOG_AUTH_FAILED>>]
    ELSE IF ~HasUrl(_contents_to_text(r))
        THEN [raised |-> FALSE,
              effects |-> <<CALL_AUTHENTICATE>>,
              log |-> <<LOG_AUTH_RESPONSE, LOG_NO_URL>>]
    ELSE IF ~bo
        THEN [raised |-> FALSE,
              effects |-> <<CALL_AUTHENTICATE>>,
              log |-> <<LOG_AUTH_RESPONSE, LOG_OPENING>>]
    ELSE IF open_ok
        THEN [raised |-> FALSE,
              effects |-> <<CALL_AUTHENTICATE, BROWSER>>,
              log |-> <<LOG_AUTH_RESPONSE, LOG_OPENING>>]
    ELSE [raised |-> FALSE,
          effects |-> <<CALL_AUTHENTICATE, BROWSER, RAISE_BROWSER>>,
          log |-> <<LOG_AUTH_RESPONSE, LOG_OPENING, LOG_BROWSER_FAILED>>]

\* mutant: lines 140-141 are missing, an exception of the polled call leaves
\* the coroutine
PollPhase_uncaught(r) ==
    IF r.raised
        THEN [returns |-> FALSE, raised |-> TRUE, assigns |-> FALSE, text |-> <<>>,
              effects |-> <<CALL_STATUS, RAISE_STATUS>>,
              log |-> <<>>]
    ELSE [returns |-> IsAuthenticated(_contents_to_text(r)), raised |-> FALSE,
          assigns |-> TRUE, text |-> _contents_to_text(r),
          effects |-> <<CALL_STATUS>>,
          log |-> <<IF IsAuthenticated(_contents_to_text(r))
                        THEN LOG_COMPLETED ELSE LOG_WAITING>>]

\* mutant: lines 135-137 are missing, a polled check that reports "Authenticated"
\* is logged like any other and the loop goes on
PollPhase_keeps_polling(r) ==
    IF r.raised
        THEN [returns |-> FALSE, raised |-> FALSE, assigns |-> FALSE, text |-> <<>>,
              effects |-> <<CALL_STATUS, RAISE_STATUS>>,
              log |-> <<LOG_POLL_FAILED>>]
    ELSE [returns |-> FALSE, raised |-> FALSE,
          assigns |-> TRUE, text |-> _contents_to_text(r),
          effects |-> <<CALL_STATUS>>,
          log |-> <<LOG_WAITING>>]

\* mutant: a polled check that raises ends the loop as if it had reported
\* "Authenticated"
PollPhase_raise_returns(r) ==
    IF r.raised
        THEN [returns |-> TRUE, raised |-> FALSE, assigns |-> FALSE, text |-> <<>>,
              effects |-> <<CALL_STATUS, RAISE_STATUS>>,
              log |-> <<LOG_POLL_FAILED>>]
    ELSE [returns |-> IsAuthenticated(_contents_to_text(r)), raised |-> FALSE,
          assigns |-> TRUE, text |-> _contents_to_text(r),
          effects |-> <<CALL_STATUS>>,
          log |-> <<IF IsAuthenticated(_contents_to_text(r))
                        THEN LOG_COMPLETED ELSE LOG_WAITING>>]

\* Lines 132-141 given the outcome r of one polled "check-auth-status" call.
PollPhase(r) ==
    IF r.raised
        THEN [returns |-> FALSE, raised |-> FALSE, assigns |-> FALSE, text |-> <<>>,
              effects |-> <<CALL_STATUS, RAISE_STATUS>>,
              log |-> <<LOG_POLL_FAILED>>]
    ELSE [returns |-> IsAuthenticated(_contents_to_text(r)), raised |-> FALSE,
          assigns |-> TRUE, text |-> _contents_to_text(r),
          effects |-> <<CALL_STATUS>>,
          log |-> <<IF IsAuthenticated(_contents_to_text(r))
                        THEN LOG_COMPLETED ELSE LOG_WAITING>>]

\* mutant: the deadline itself still starts an iteration (<= for <)
LoopCond_inclusive(t, s, timeout) == t - s <= timeout

\* mutant: the operands of the subtraction are exchanged
LoopCond_swapped(t, s, timeout) == s - t < timeout

\* while time.time() - start < timeout
LoopCond(t, s, timeout) == t - s < timeout

\* mutant: line 129 stands before line 110, the poll clock starts when the
\* "authenticate" call is issued
LoopStart_before_authenticate(t_call, t_done) == t_call

\* Line 129: start = time.time(), read when the authenticate phase is over
\* (t_call: the time at which the "authenticate" call was issued; t_done: the
\* time at which lines 110-126 are done).
LoopStart(t_call, t_done) == t_done

\* mutant: line 143 is missing and the loop is `while True` around the test, so
\* past the deadline the coroutine spins without sleeping or polling
LoopTest_spin(t, s, timeout) ==
    IF LoopCond(t, s, timeout)
        THEN [pc |-> "sleep", result |-> "none"]
        ELSE [pc |-> "spin", result |-> "none"]

\* mutant: the loop is entered without a test (the deadline is tested after each
\* iteration only)
LoopTest_after_iteration(t, s, timeout) ==
    IF t = s \/ LoopCond(t, s, timeout)
        THEN [pc |-> "sleep", result |-> "none"]
        ELSE [pc |-> "done", result |-> "TimeoutError"]

\* Line 130 at time t, and line 143 when the condition fails: the coroutine goes
\* on to the sleep of line 131, or raises TimeoutError.
LoopTest(t, s, timeout) ==
    IF LoopCond(t, s, timeout)
        THEN [pc |-> "sleep", result |-> "none"]
        ELSE [pc |-> "done", result |-> "TimeoutError"]

\* ------------------------------------------------------------------ ensure_authenticated
\* One action per await point: the code between two awaits runs without
\* interruption (section 5 of the spec: a single thread of control).

\* The call begins (line 92); no other operation of the coordinator is running.
Begin ==
    /\ pc = "done"
    /\ op' = "ensure_authenticated"
    /\ pc' = "check"
    /\ result' = "none"
    /\ status_text' = <<>>
    /\ now' = 0
    /\ start' = 0
    /\ call_dur' = 0
    /\ effects' = EmptyBag
    /\ log' = EmptyBag
    /\ UNCHANGED <<config, args, environ, popen_env, response, extracted, auth_server_process, orphans>>

\* 1) lines 94-103
InitialCheck ==
    /\ pc = "check"
    /\ \E r \in StatusOutcomes :
        LET ph == InitialCheckPhase(r)
        IN  /\ effects' = AddAll(effects, ph.effects)
            /\ log' = AddAll(log, ph.log)
            /\ status_text' = IF ph.assigns THEN ph.text ELSE status_text
            /\ pc' = IF ph.raised \/ ph.returns THEN "done" ELSE "helper"
            /\ result' = IF ph.raised THEN "Exception"
                         ELSE IF ph.returns THEN "returned" ELSE "none"
    /\ UNCHANGED <<config, args, environ, popen_env, response, extracted, auth_server_process, orphans, op, now, start, call_dur>>

\* mutant: line 106 is missing, the helper launch is attempted whatever
\* start_auth_server is
HelperLaunch_unconditional ==
    /\ pc = "helper"
    /\ \E exists \in BOOLEAN, spawn_ok \in BOOLEAN :
          /\ spawn_ok => CanSpawn
          /\ LET h == _start_auth_server_if_available(
                          auth_server_process, orphans, exists, spawn_ok)
             IN  /\ auth_server_process' = h.process
                 /\ orphans' = h.orphans
                 /\ effects' = AddAll(effects, h.effects)
                 /\ log' = AddAll(log, h.log)
                 /\ pc' = IF h.raised THEN "done" ELSE "authenticate"
                 /\ result' = IF h.raised THEN "Exception" ELSE "none"
    /\ UNCHANGED <<config, args, environ, popen_env, response, extracted, op,
                   status_text, now, start, call_dur>>

\* 2) lines 105-107
HelperLaunch ==
    /\ pc = "helper"
    /\ IF start_auth_server
          THEN \E exists \in BOOLEAN, spawn_ok \in BOOLEAN :
                  /\ spawn_ok => CanSpawn
                  /\ LET h == _start_auth_server_if_available(
                                  auth_server_process, orphans, exists, spawn_ok)
                     IN  /\ auth_server_process' = h.process
                         /\ orphans' = h.orphans
                         /\ effects' = AddAll(effects, h.effects)
                         /\ log' = AddAll(log, h.log)
                         /\ pc' = IF h.raised THEN "done" ELSE "authenticate"
                         /\ result' = IF h.raised THEN "Exception" ELSE "none"
          ELSE /\ pc' = "authenticate"
               /\ UNCHANGED <<auth_server_process, orphans, effects, log, result>>
    /\ UNCHANGED <<config, args, environ, popen_env, response, extracted, op, status_text, now, start, call_dur>>

\* 3) lines 109-126: the "authenticate" call ends after AuthCallDur ticks; then
\* lines 129-130 (and 143 when the loop is not entered)
Authenticate ==
    /\ pc = "authenticate"
    /\ \E r \in AuthenticateOutcomes, open_ok \in BOOLEAN :
        LET ph == AuthenticatePhase(r, open_ok, browser_open)
            s == LoopStart(now, now + AuthCallDur)
            lt == LoopTest(now + AuthCallDur, s, timeout_seconds)
        IN  /\ now' = now + AuthCallDur
            /\ start' = s
            /\ effects' = AddAll(effects, ph.effects)
            /\ log' = AddAll(log, ph.log)
            /\ pc' = IF ph.raised THEN "done" ELSE lt.pc
            /\ result' = IF ph.raised THEN "Exception" ELSE lt.result
    /\ UNCHANGED <<config, args, environ, popen_env, response, extracted, auth_server_process, orphans, op, status_text, call_dur>>

\* 4) line 131: the sleep ends after poll_interval_seconds
Sleep ==
    /\ pc = "sleep"
    /\ now' = now + poll_interval_seconds
    /\ effects' = AddAll(effects, <<SLEEP>>)
    /\ pc' = "poll"
    /\ UNCHANGED <<config, args, environ, popen_env, response, extracted, auth_server_process, orphans, op, result, status_text,
                   start, call_dur, log>>

\* lines 132-141: the polled call ends after d ticks; then line 130 again (and 143)
Poll ==
    /\ pc = "poll"
    /\ \E r \in StatusOutcomes, d \in CallDurs :
        LET ph == PollPhase(r)
            lt == LoopTest(now + d, start, timeout_seconds)
        IN  /\ now' = now + d
            /\ call_dur' = d
            /\ effects' = AddAll(effects, ph.effects)
            /\ log' = AddAll(log, ph.log)
            /\ status_text' = IF ph.assigns THEN ph.text ELSE status_text
            /\ pc' = IF ph.raised \/ ph.returns THEN "done" ELSE lt.pc
            /\ result' = IF ph.raised THEN "Exception"
                         ELSE IF ph.returns THEN "returned" ELSE lt.result
    /\ UNCHANGED <<config, args, environ, popen_env, response, extracted, auth_server_process, orphans, op, start>>

\* ------------------------------------------------------------------ other operations
\* _start_auth_server_if_available called on its own
Launch ==
    /\ pc = "done"
    /\ \E exists \in BOOLEAN, spawn_ok \in BOOLEAN :
        /\ spawn_ok => CanSpawn
        /\ LET h == _start_auth_server_if_available(
                        auth_server_process, orphans, exists, spawn_ok)
           IN  /\ auth_server_process' = h.process
               /\ orphans' = h.orphans
               /\ effects' = AddAll(EmptyBag, h.effects)
               /\ log' = AddAll(EmptyBag, h.log)
               /\ result' = IF h.raised THEN "Exception" ELSE "returned"
    /\ op' = "_start_auth_server_if_available"
    /\ pc' = "done"
    /\ status_text' = <<>>
    /\ now' = 0
    /\ start' = 0
    /\ call_dur' = 0
    /\ UNCHANGED <<config, args, environ, popen_env, response, extracted>>

\* stop()
Stop ==
    /\ pc = "done"
    /\ \E term_ok \in BOOLEAN :
        LET h == stop(auth_server_process, orphans, term_ok)
        IN  /\ auth_server_process' = h.process
            /\ orphans' = h.orphans
            /\ effects' = AddAll(EmptyBag, h.effects)
            /\ result' = IF h.raised THEN "Exception" ELSE "returned"
    /\ op' = "stop"
    /\ pc' = "done"
    /\ log' = EmptyBag
    /\ status_text' = <<>>
    /\ now' = 0
    /\ start' = 0
    /\ call_dur' = 0
    /\ UNCHANGED <<config, args, environ, popen_env, response, extracted>>

\* a helper process exits on its own: the one the handle refers to, or an orphan
ProcExit ==
    /\ \/ /\ auth_server_process = "running"
          /\ auth_server_process' = "exited"
          /\ orphans' = orphans
       \/ /\ orphans > 0
          /\ orphans' = orphans - 1
          /\ auth_server_process' = auth_server_process
    /\ UNCHANGED <<config, args, environ, popen_env, response, extracted, op, pc, result, status_text, now, start, call_dur,
                   effects, log>>

Next ==
    \/ Begin
    \/ InitialCheck
    \/ HelperLaunch
    \/ Authenticate
    \/ Sleep
    \/ Poll
    \/ Launch
    \/ Stop
    \/ ProcExit

Spec == Init /\ [][Next]_vars

\* Every awaited call returns or raises and every sleep ends: each step of a
\* running ensure_authenticated is eventually taken.
FairSpec ==
    /\ Spec
    /\ WF_vars(InitialCheck)
    /\ WF_vars(HelperLaunch)
    /\ WF_vars(Authenticate)
    /\ WF_vars(Sleep)
    /\ WF_vars(Poll)

\* ------------------------------------------------------------------ the functions on their own
\* A second specification applies the constructor, _contents_to_text and the
\* helper launch to inputs the run of ensure_authenticated above does not vary:
\* the keyword arguments and the environment, the fragments of a response.

\* mutant: the value is assigned (d[key] = value) whether the key is there or not
setdefault_overwrites(d, key, value) == [d EXCEPT ![key] = SetTo(value)]

\* dict.setdefault(key, value)
setdefault(d, key, value) ==
    IF d[key].given THEN d ELSE [d EXCEPT ![key] = SetTo(value)]

\* Lines 66-69: the env argument of Popen (child), and os.environ afterwards.
\* env.get(name, "") is getenv on the copy.
HelperEnv(env) ==
    LET copy == env
        with_id == setdefault(copy, MS_CLIENT_ID, getenv(copy, OUTLOOK_CLIENT_ID, <<>>))
        with_secret == setdefault(with_id, MS_CLIENT_SECRET,
                                  getenv(with_id, OUTLOOK_CLIENT_SECRET, <<>>))
    IN  [environ |-> env, child |-> with_secret]

TimeoutArgs == {NoArg, Arg(0), Arg(5)}
PollIntervalArgs == {NoArg, Arg(0)}
StartAuthServerArgs == {NoArg, Arg(FALSE), Arg(TRUE)}
BrowserOpenArgs == {NoArg, Arg(FALSE)}

\* values of AUTH_TIMEOUT_SECONDS: unset, "0", " 7", "1.0", "x"
TimeoutEnvs ==
    {Unset, SetTo(<<"0">>), SetTo(<<SP, "7">>), SetTo(<<"1", ".", "0">>), SetTo(<<"x">>)}
\* values of AUTH_POLL_INTERVAL_SECONDS: unset, "1.0", "x"
PollIntervalEnvs == {Unset, SetTo(<<"1", ".", "0">>), SetTo(<<"x">>)}
\* values of START_AUTH_SERVER: unset, "false", "False", "true", ""
StartAuthServerEnvs ==
    {Unset, SetTo(StrFalse), SetTo(<<"F", "a", "l", "s", "e">>), SetTo(StrTrue),
     SetTo(<<>>)}
\* values of BROWSER_OPEN: unset, "FALSE", " false"
BrowserOpenEnvs ==
    {Unset, SetTo(<<"F", "A", "L", "S", "E">>), SetTo(<<SP>> \o StrFalse)}

\* values of the credential variables: unset, empty, a value of their own
CredentialEnvs(own) == {Unset, SetTo(<<>>), SetTo(<<own>>)}
PathEnvs == {Unset, SetTo(<<"/", "b", "i", "n">>)}

EmptyEnv == [n \in EnvNames |-> Unset]

\* the state of the coordinator's variables the functions do not touch
Idle ==
    /\ auth_server_process = NoProc
    /\ orphans = 0
    /\ result = "none"
    /\ status_text = <<>>
    /\ now = 0
    /\ start = 0
    /\ call_dur = 0
    /\ effects = EmptyBag
    /\ log = EmptyBag
    /\ popen_env = EmptyEnv
    /\ extracted = <<>>

\* the constructor is about to run with some arguments in some environment
InitConstructor ==
    /\ op = "__init__"
    /\ pc = "new"
    /\ args \in [ timeout_seconds : TimeoutArgs,
                  poll_interval_seconds : PollIntervalArgs,
                  start_auth_server : StartAuthServerArgs,
                  browser_open : BrowserOpenArgs ]
    /\ \E t \in TimeoutEnvs, p \in PollIntervalEnvs,
          s \in StartAuthServerEnvs, b \in BrowserOpenEnvs :
          environ = [EmptyEnv EXCEPT ![AUTH_TIMEOUT_SECONDS] = t,
                                     ![AUTH_POLL_INTERVAL_SECONDS] = p,
                                     ![START_AUTH_SERVER] = s,
                                     ![BROWSER_OPEN] = b]
    /\ timeout_seconds = 0
    /\ poll_interval_seconds = 0
    /\ start_auth_server = FALSE
    /\ browser_open = FALSE
    /\ response = NoContent
    /\ Idle

AllArgs(a) ==
    [timeout_seconds |-> Arg(a.timeout_seconds),
     poll_interval_seconds |-> Arg(a.poll_interval_seconds),
     start_auth_server |-> Arg(a.start_auth_server),
     browser_open |-> Arg(a.browser_open)]

\* the constructed coordinator of the functions that do not read the options
Constructed ==
    /\ args = AllArgs([timeout_seconds |-> 0, poll_interval_seconds |-> 1,
                       start_auth_server |-> TRUE, browser_open |-> TRUE])
    /\ timeout_seconds = 0
    /\ poll_interval_seconds = 1
    /\ start_auth_server = TRUE
    /\ browser_open = TRUE

\* the helper is about to be launched, without a handle, in some environment
InitLaunch ==
    /\ op = "_start_auth_server_if_available"
    /\ pc = "new"
    /\ Constructed
    /\ \E oi \in CredentialEnvs("a"), os \in CredentialEnvs("b"),
          mi \in CredentialEnvs("c"), ms \in CredentialEnvs("d"), pa \in PathEnvs :
          environ = [EmptyEnv EXCEPT ![OUTLOOK_CLIENT_ID] = oi,
                                     ![OUTLOOK_CLIENT_SECRET] = os,
                                     ![MS_CLIENT_ID] = mi,
                                     ![MS_CLIENT_SECRET] = ms,
                                     ![PATH] = pa]
    /\ response = NoContent
    /\ Idle

\* lines 29-48
Construct ==
    /\ op = "__init__"
    /\ pc = "new"
    /\ LET c == __init__(args, environ)
       IN  IF c.raised
               THEN /\ result' = "ValueError"
                    /\ UNCHANGED config
               ELSE /\ result' = "returned"
                    /\ timeout_seconds' = c.timeout_seconds
                    /\ poll_interval_seconds' = c.poll_interval_seconds
                    /\ start_auth_server' = c.start_auth_server
                    /\ browser_open' = c.browser_open
    /\ pc' = "done"
    /\ UNCHANGED <<auth_server_process, orphans, op, status_text, now, start, call_dur,
                   effects, log, args, environ, popen_env, response, extracted>>

\* lines 59-80 with the environment: _start_auth_server_if_available without a
\* handle; the script is there or not, Popen succeeds or raises
LaunchWithEnv ==
    /\ op = "_start_auth_server_if_available"
    /\ pc = "new"
    /\ \E exists \in BOOLEAN, spawn_ok \in BOOLEAN :
        LET h == _start_auth_server_if_available(
                     auth_server_process, orphans, exists, spawn_ok)
            e == HelperEnv(environ)
        IN  /\ auth_server_process' = h.process
            /\ orphans' = h.orphans
            /\ effects' = AddAll(EmptyBag, h.effects)
            /\ log' = AddAll(EmptyBag, h.log)
            /\ result' = IF h.raised THEN "Exception" ELSE "returned"
            /\ environ' = IF exists THEN e.environ ELSE environ
            /\ popen_env' = IF exists THEN e.child ELSE popen_env
    /\ pc' = "done"
    /\ UNCHANGED <<config, op, status_text, now, start, call_dur, args, response,
                   extracted>>

\* an object with type "text" and no text attribute; a mapping of another type
\* with a "text" key; an object with a text attribute and no type
AttrNoText == Frag("attr", "text", FALSE, <<>>)
DictOther == Frag("dict", "image", TRUE, <<"z">>)
AttrNoType == Frag("attr", "none", TRUE, <<"y">>)

FragInputs ==
    {Text(<<"a">>), Text(<<>>), DictText(<<"b">>), DictNoText, IMAGE, AttrNoText,
     DictOther, AttrNoType}

\* a response without content, or with a list of at most MaxFrags fragments
ResponseInputs ==
    {NoContent} \cup
        {Resp(fs) : fs \in UNION {[1 .. n -> FragInputs] : n \in 0 .. MaxFrags}}

\* _contents_to_text is about to be applied to the content of a response
InitExtract ==
    /\ op = "_contents_to_text"
    /\ pc = "new"
    /\ Constructed
    /\ environ = EmptyEnv
    /\ response \in ResponseInputs
    /\ Idle

\* lines 50-57 (and getattr(response, "content", None) of lines 97, 112, 134)
Extract ==
    /\ op = "_contents_to_text"
    /\ pc = "new"
    /\ extracted' = _contents_to_text(response)
    /\ result' = "returned"
    /\ pc' = "done"
    /\ UNCHANGED <<config, auth_server_process, orphans, op, status_text, now, start,
                   call_dur, effects, log, args, environ, popen_env, response>>

InitFunctions ==
    \/ InitConstructor
    \/ InitLaunch
    \/ InitExtract

FunctionsNext ==
    \/ Construct
    \/ LaunchWithEnv
    \/ Extract

Functions == InitFunctions /\ [][FunctionsNext]_vars


\* ------------------------------------------------------------------ properties
InCall == op = "ensure_authenticated"
Ended == InCall /\ pc = "done"
Elapsed == now - start
StatusCalls == Count(effects, CALL_STATUS)
Polls == Count(effects, SLEEP)

\* C1: when the response of the initial check-auth-status call has a text that
\* contains "Authenticated", ensure_authenticated returns at once: that call is
\* its only effect (no helper launch, no "authenticate" call, no browser, no
\* sleep), whatever the configuration.
C1_InitialAuthenticatedReturns ==
    (InCall /\ StatusCalls = 1 /\ Contains(status_text, MARKER))
        => /\ pc = "done"
           /\ result = "returned"
           /\ effects = SetToBag({CALL_STATUS})

\* C1 witness: such a call has returned, with the marker inside a longer text and
\* a configuration that would otherwise launch the helper and open the browser.
C1_Witness ==
    /\ Ended
    /\ result = "returned"
    /\ StatusCalls = 1
    /\ Contains(status_text, MARKER)
    /\ status_text # MARKER
    /\ start_auth_server
    /\ browser_open

\* every status check of the call returned (none raised) and the call timed out:
\* each of them reported a non-authenticated status
AllReportedUnauthenticated ==
    /\ Ended
    /\ result = "TimeoutError"
    /\ Count(effects, RAISE_STATUS) = 0

Max(a, b) == IF a >= b THEN a ELSE b

\* C2 as stated, for the timeouts T >= 0: when every status check reports a
\* non-authenticated status the timeout failure is raised at an elapsed time
\* >= T and < T + P.
C2_Original ==
    (AllReportedUnauthenticated /\ timeout_seconds >= 0)
        => /\ Elapsed >= timeout_seconds
           /\ Elapsed < timeout_seconds + poll_interval_seconds

\* C2 amended: the timeout failure is raised at an elapsed time e with e >= T and
\* e < max(T, 0) + P + d, where d is the time the last polled status check took
\* (0 when none was issued); so e < T + P when T >= 0 and that check took no time.
C2_TimeoutWindow ==
    AllReportedUnauthenticated
        => /\ Elapsed >= timeout_seconds
           /\ Elapsed < Max(timeout_seconds, 0) + poll_interval_seconds + call_dur
           /\ (Polls = 0 => Elapsed = 0 /\ call_dur = 0)

\* C2 witness: a timeout after two polls, the last of which took time, at an
\* elapsed time of at least T + P.
C2_Witness ==
    /\ AllReportedUnauthenticated
    /\ Polls = 2
    /\ call_dur > 0
    /\ Elapsed >= timeout_seconds + poll_interval_seconds

\* C3 as stated: in the poll loop the elapsed time never exceeds timeoutSeconds.
C3_Original ==
    (InCall /\ pc \in {"sleep", "poll"}) => Elapsed <= timeout_seconds

\* C3 amended: an iteration of the poll loop begins (its sleep starts) at an
\* elapsed time below timeoutSeconds; when its sleep ends the elapsed time is
\* below T + P, and when its status check ends below T + P + d, d being the time
\* that check took.
C3_ElapsedBound ==
    /\ (InCall /\ pc = "sleep") => Elapsed < timeout_seconds
    /\ (InCall /\ pc = "poll") => Elapsed < timeout_seconds + poll_interval_seconds
    /\ (Ended /\ Polls > 0)
           => Elapsed < timeout_seconds + poll_interval_seconds + call_dur

\* C3 witness: a status check is awaited past the deadline.
C3_Witness ==
    /\ InCall
    /\ pc = "poll"
    /\ Elapsed > timeout_seconds
    /\ Polls = 2

\* the exceptions the environment raised so far in the operation
RaisedIn(bag) ==
    Count(bag, RAISE_STATUS) + Count(bag, RAISE_POPEN)
        + Count(bag, RAISE_AUTHENTICATE) + Count(bag, RAISE_BROWSER)

\* where ensure_authenticated goes on after the phase at position p, when it
\* neither returns nor raises there
NextPhase(p) ==
    CASE p = "check" -> {"helper"}
      [] p = "helper" -> {"authenticate"}
      [] p = "authenticate" -> {"sleep"}
      [] p = "sleep" -> {"poll"}
      [] p = "poll" -> {"sleep"}
      [] OTHER -> {}

\* C4: ensure_authenticated ends by returning or by raising the timeout failure,
\* nothing else; and a step in which the status check, the helper spawn, the
\* "authenticate" call or the browser open raises ends in the next phase (for the
\* last phase before the loop and for a poll: in the next iteration, or in the
\* timeout failure when the deadline has passed).
C4_OnlyTimeoutPropagates ==
    [][ InCall' =>
          /\ result' \in {"none", "returned", "TimeoutError"}
          /\ (pc' = "done") = (result' # "none")
          /\ (InCall /\ RaisedIn(effects') > RaisedIn(effects))
                 => \/ pc' \in NextPhase(pc)
                    \/ /\ pc \in {"authenticate", "poll"}
                       /\ pc' = "done"
                       /\ result' = "TimeoutError"
                       /\ now' - start' >= timeout_seconds ]_vars

\* C4 witness: a call in which the initial check, the helper spawn, the
\* "authenticate" call and two polls raised has ended in the timeout failure.
C4_Witness ==
    /\ Ended
    /\ result = "TimeoutError"
    /\ Count(effects, RAISE_STATUS) = 3
    /\ Count(effects, RAISE_POPEN) = 1
    /\ Count(effects, RAISE_AUTHENTICATE) = 1

\* C5: a call of ensure_authenticated that has begun reaches a terminal outcome,
\* Authenticated (it returns) or TimedOut (it raises the timeout failure).
C5_Terminates ==
    (InCall /\ pc # "done") ~> (Ended /\ result \in {"returned", "TimeoutError"})

\* C5 witness: a call in which every status check raised, three polls among them,
\* has ended in the timeout failure.
C5_Witness ==
    /\ Ended
    /\ result = "TimeoutError"
    /\ Polls = 3
    /\ Count(effects, RAISE_STATUS) = 4
    /\ StatusCalls = 4

\* C6 as stated: at most one helper process spawned by the coordinator is live.
C6_AtMostOneLive == Live <= 1

\* a step that is a call of _start_auth_server_if_available: on its own, or from
\* line 107 of ensure_authenticated
LaunchStep ==
    \/ /\ pc = "done"
       /\ op' = "_start_auth_server_if_available"
       /\ <<op, effects>>' # <<op, effects>>
    \/ /\ InCall
       /\ pc = "helper"
       /\ pc' # "helper"
       /\ start_auth_server

\* C7: a launch request made while a handle is held, be its process running or
\* exited, spawns nothing (it does not even look for the script), raises nothing
\* and leaves the handle and the live processes as they were.
C7_LaunchIdempotent ==
    [][ (LaunchStep /\ auth_server_process # NoProc)
            => /\ auth_server_process' = auth_server_process
               /\ orphans' = orphans
               /\ Live' = Live
               /\ Count(effects', POPEN) = 0
               /\ Count(effects', EXISTS) = 0
               /\ Count(effects', LAUNCH) = 1
               /\ result' # "Exception" ]_vars

\* C7 witness: a launch request on its own has found a handle; the process of
\* the handle has exited and was not restarted.
C7_Witness ==
    /\ op = "_start_auth_server_if_available"
    /\ result = "returned"
    /\ effects = SetToBag({LAUNCH})
    /\ auth_server_process = "exited"

\* C8: a launch attempt made without a handle that finds no script, or whose
\* spawn raises, leaves the coordinator without a handle, creates no process,
\* raises nothing, and ensure_authenticated goes on to the "authenticate" call.
C8_FailedLaunchIsNoop ==
    [][ ( /\ LaunchStep
          /\ auth_server_process = NoProc
          /\ Count(effects', POPEN) = 0 \/ Count(effects', RAISE_POPEN) > 0 )
            => /\ auth_server_process' = NoProc
               /\ orphans' = orphans
               /\ Count(effects', SETTLE) = 0
               /\ result' # "Exception"
               /\ pc = "helper" => (pc' = "authenticate" /\ result' = "none") ]_vars

\* C8 witness: in a call whose helper spawn raised, "authenticate" was called
\* while the coordinator held no handle.
C8_Witness ==
    /\ InCall
    /\ Count(effects, RAISE_POPEN) = 1
    /\ Count(effects, CALL_AUTHENTICATE) = 1
    /\ auth_server_process = NoProc
    /\ Live = 0

\* what stop() would do in the state reached
StopAgain(term_ok) == stop(auth_server_process, orphans, term_ok)

\* C9: stop() returns (it never raises) and leaves no handle.  Without a handle
\* it changes nothing and requests no termination; with a handle it requests
\* termination once, also when that request raises.  After a stop(), a further
\* stop() changes nothing and requests nothing (a step from one state of stop to
\* another that changes the effects is a second stop(); one that does not is the
\* exit of a process).
C9_StopIdempotent ==
    [][ /\ op' = "stop"
            => /\ pc' = "done"
               /\ result' = "returned"
               /\ auth_server_process' = NoProc
               /\ \A term_ok \in BOOLEAN :
                      /\ StopAgain(term_ok)'.process = NoProc
                      /\ StopAgain(term_ok)'.orphans = orphans'
                      /\ StopAgain(term_ok)'.effects = <<>>
                      /\ ~StopAgain(term_ok)'.raised
        /\ (op # "stop" /\ op' = "stop" /\ auth_server_process = NoProc)
            => /\ orphans' = orphans
               /\ effects' = EmptyBag
        /\ (op # "stop" /\ op' = "stop" /\ auth_server_process # NoProc)
            => /\ Count(effects', TERMINATE) = 1
               /\ Live' <= Live
        /\ (op = "stop" /\ op' = "stop" /\ effects' # effects)
            => /\ effects' = EmptyBag
               /\ orphans' = orphans
               /\ Live' = Live ]_vars

\* C9 witness: a stop() whose termination request raised has returned and
\* cleared the handle.
C9_Witness ==
    /\ op = "stop"
    /\ result = "returned"
    /\ Count(effects, TERMINATE) = 1
    /\ Count(effects, RAISE_TERMINATE) = 1
    /\ auth_server_process = NoProc

\* the initial status check raised and the first polled one returned a text that
\* contains "Authenticated"
FirstRaisedSecondAuthenticated ==
    /\ InCall
    /\ StatusCalls = 2
    /\ Count(effects, RAISE_STATUS) = 1
    /\ Contains(status_text, MARKER)

\* C10 as stated: then ensure_authenticated returns and exactly one warning has
\* been logged.
C10_Original ==
    FirstRaisedSecondAuthenticated
        => /\ Ended
           /\ result = "returned"
           /\ Warnings = 1

\* C10 amended: then ensure_authenticated returns and exactly one warning about a
\* status check has been logged, the one for the initial check; every other
\* warning of the call is that of a failed helper spawn, "authenticate" call or
\* browser open, so that there is exactly one warning when none of these failed.
C10_OneStatusWarning ==
    FirstRaisedSecondAuthenticated
        => /\ Ended
           /\ result = "returned"
           /\ Count(log, LOG_CHECK_FAILED) = 1
           /\ Count(log, LOG_POLL_FAILED) = 0
           /\ Count(log, LOG_COMPLETED) = 1
           /\ Warnings = 1 + Count(effects, RAISE_POPEN)
                           + Count(effects, RAISE_AUTHENTICATE)
                           + Count(effects, RAISE_BROWSER)

\* C10 witness: such a call has returned with one warning in its log.
C10_Witness ==
    /\ FirstRaisedSecondAuthenticated
    /\ Ended
    /\ result = "returned"
    /\ Polls = 1
    /\ Warnings = 1

\* the exceptions the operation caught so far: those of the remote calls, of the
\* helper spawn, of the browser open and of the termination request
CaughtIn(bag) == RaisedIn(bag) + Count(bag, RAISE_TERMINATE)

\* C11 as stated: in every operation of the coordinator (ensure_authenticated,
\* helper launch, stop()) each exception that is caught and not propagated has
\* its log line: no operation ends with an exception, and the operation has
\* printed as many lines of an except clause as it caught exceptions.
C11_EveryCaughtErrorLogged ==
    /\ result # "Exception"
    /\ CaughtIn(effects) = Warnings

\* the text holds a URL: a scheme followed by a run of at least one character
\* that is not white space
ContainsUrl(text) ==
    \E i \in 1 .. Len(text), j \in 1 .. Len(text) :
        /\ i < j
        /\ text[i] = SCHEME
        /\ \A k \in (i + 1) .. j : text[k] \notin {NL, SP}

\* C12: within one ensure_authenticated call the browser is opened at most once,
\* and only when the "authenticate" call returned a text that contains a URL and
\* browserOpen is enabled.  Whatever the "authenticate" call does (it raises, its
\* text has no URL, browserOpen is disabled, the browser opens or fails to), the
\* browser is opened once exactly when the call returned, its text contains a URL
\* and browserOpen is enabled, nothing is raised, and the call goes on to the
\* poll loop: its first sleep, or the timeout failure when timeoutSeconds <= 0.
C12_BrowserAtMostOnce ==
    /\ \A r \in AuthenticateOutcomes, open_ok \in BOOLEAN, bo \in BOOLEAN :
          LET ph == AuthenticatePhase(r, open_ok, bo)
              opens == Count(AddAll(EmptyBag, ph.effects), BROWSER)
          IN  /\ ~ph.raised
              /\ opens = IF ~r.raised /\ ContainsUrl(_contents_to_text(r)) /\ bo
                             THEN 1 ELSE 0
    /\ InCall =>
          /\ Count(effects, BROWSER) <= 1
          /\ Count(effects, BROWSER) = 1 =>
                /\ browser_open
                /\ Count(effects, CALL_AUTHENTICATE) = 1
                /\ Count(effects, RAISE_AUTHENTICATE) = 0
                /\ Count(log, LOG_OPENING) = 1
          /\ pc \in {"check", "helper", "authenticate"} => Count(effects, BROWSER) = 0
          /\ Count(effects, CALL_AUTHENTICATE) = 1 =>
                /\ pc \in {"sleep", "poll", "done"}
                /\ result \in {"none", "returned", "TimeoutError"}
                /\ (pc = "done" /\ Polls = 0) =>
                       (result = "TimeoutError" /\ timeout_seconds <= 0)

\* C12 witness: the browser was opened once (and failed to open), and two polls
\* later it has not been opened again.
C12_Witness ==
    /\ InCall
    /\ Count(effects, BROWSER) = 1
    /\ Count(effects, RAISE_BROWSER) = 1
    /\ Polls = 2
    /\ pc = "poll"

\* the helper launch attempt of the call: one when startAuthServer is enabled
LaunchAttempts == IF start_auth_server THEN 1 ELSE 0

\* what a call has done when it stands at each position
PhaseOrder ==
    /\ pc = "check" => effects = EmptyBag
    /\ pc = "helper" =>
          /\ StatusCalls = 1
          /\ Count(effects, LAUNCH) = 0
          /\ Count(effects, CALL_AUTHENTICATE) = 0
    /\ pc = "authenticate" =>
          /\ StatusCalls = 1
          /\ Count(effects, LAUNCH) = LaunchAttempts
          /\ Count(effects, CALL_AUTHENTICATE) = 0
    /\ pc \in {"check", "helper", "authenticate"} =>
          /\ Count(effects, BROWSER) = 0
          /\ Polls = 0
          /\ result = "none"
    /\ pc \in {"sleep", "poll"} =>
          /\ Count(effects, LAUNCH) = LaunchAttempts
          /\ Count(effects, CALL_AUTHENTICATE) = 1
          /\ StatusCalls = IF pc = "sleep" THEN Polls + 1 ELSE Polls
          /\ result = "none"
    /\ pc = "done" =>
          \/ /\ result = "returned"
             /\ effects = SetToBag({CALL_STATUS})
          \/ /\ result \in {"returned", "TimeoutError"}
             /\ Count(effects, LAUNCH) = LaunchAttempts
             /\ Count(effects, CALL_AUTHENTICATE) = 1
             /\ StatusCalls = Polls + 1
             /\ result = "returned" => Polls > 0

\* C13: a call of ensure_authenticated runs its phases in the order status
\* check, helper launch attempt (when startAuthServer is enabled), "authenticate"
\* with force = true, browser open, poll loop, terminal outcome.  A call that
\* does not return at the initial check invokes "authenticate" exactly once,
\* after the launch attempt and before the first sleep; the poll clock is started
\* when the authenticate phase is over and is not touched by the loop; a polled
\* status check is issued only right after one sleep of pollIntervalSeconds.
C13_PhaseOrder ==
    [][ InCall' =>
          /\ PhaseOrder'
          /\ (InCall /\ pc = "authenticate" /\ pc' # pc) =>
                /\ Count(effects', CALL_AUTHENTICATE) = 1
                /\ now' = now + AuthCallDur
                /\ start' = now'
          /\ (InCall /\ pc \in {"sleep", "poll"}) => start' = start
          /\ (InCall /\ pc' = "poll" /\ pc # "poll") =>
                /\ pc = "sleep"
                /\ Count(effects', SLEEP) = Count(effects, SLEEP) + 1
                /\ Count(effects', CALL_STATUS) = Count(effects, CALL_STATUS)
                /\ now' = now + poll_interval_seconds
          /\ (InCall /\ Count(effects', CALL_STATUS) > Count(effects, CALL_STATUS)) =>
                /\ pc \in {"check", "poll"}
                /\ Count(effects', CALL_STATUS) = Count(effects, CALL_STATUS) + 1
                /\ Count(effects', SLEEP) = Count(effects, SLEEP) ]_vars

\* C13 witness: a call that launched the helper, called "authenticate" once and
\* opened the browser awaits its second polled status check; its poll clock
\* started after the "authenticate" call.
C13_Witness ==
    /\ InCall
    /\ pc = "poll"
    /\ Polls = 2
    /\ StatusCalls = 2
    /\ Count(effects, POPEN) = 1
    /\ Count(effects, CALL_AUTHENTICATE) = 1
    /\ Count(effects, BROWSER) = 1
    /\ start = AuthCallDur

\* the constructor has run (in the second specification)
AfterConstructor == op = "__init__" /\ pc = "done"

\* the option opt is taken from the environment variable name
FromEnv(opt, name) == ~args[opt].given /\ environ[name].given
FromDefault(opt, name) == ~args[opt].given /\ ~environ[name].given

\* s is "false" in any mix of upper and lower case
SpellsFalse(s) ==
    /\ Len(s) = 5
    /\ s[1] \in {"f", "F"}
    /\ s[2] \in {"a", "A"}
    /\ s[3] \in {"l", "L"}
    /\ s[4] \in {"s", "S"}
    /\ s[5] \in {"e", "E"}

\* C14 as stated, for the two flags: a flag is the explicit argument when one is
\* given, true when its variable is unset, and otherwise true unless the value
\* of the variable is the literal "false".
C14_Original ==
    (AfterConstructor /\ result = "returned") =>
        /\ args.start_auth_server.given =>
              start_auth_server = args.start_auth_server.value
        /\ FromDefault("start_auth_server", START_AUTH_SERVER) => start_auth_server
        /\ FromEnv("start_auth_server", START_AUTH_SERVER) =>
              start_auth_server = (environ[START_AUTH_SERVER].value # StrFalse)
        /\ args.browser_open.given => browser_open = args.browser_open.value
        /\ FromDefault("browser_open", BROWSER_OPEN) => browser_open
        /\ FromEnv("browser_open", BROWSER_OPEN) =>
              browser_open = (environ[BROWSER_OPEN].value # StrFalse)

\* C14 amended: each option is the explicit argument when one is given, falsy
\* values included, and the environment is then not read for it.  Otherwise it is
\* the default (180, 2, true, true) when its variable is unset, and the value
\* derived from the variable when it is set: the number it holds for the timeout
\* and the poll interval, and for the two flags true unless the value is "false"
\* in any mix of upper and lower case.  The constructor raises ValueError exactly
\* when a numeric variable that is read does not hold a number.
C14_ConfigResolution ==
    AfterConstructor =>
        /\ result \in {"returned", "ValueError"}
        /\ (result = "ValueError") =
               \/ FromEnv("timeout_seconds", AUTH_TIMEOUT_SECONDS)
                     /\ ~int(environ[AUTH_TIMEOUT_SECONDS].value).ok
               \/ FromEnv("poll_interval_seconds", AUTH_POLL_INTERVAL_SECONDS)
                     /\ ~float(environ[AUTH_POLL_INTERVAL_SECONDS].value).ok
        /\ result = "returned" =>
              /\ args.timeout_seconds.given =>
                    timeout_seconds = args.timeout_seconds.value
              /\ FromDefault("timeout_seconds", AUTH_TIMEOUT_SECONDS) =>
                    timeout_seconds = 180
              /\ FromEnv("timeout_seconds", AUTH_TIMEOUT_SECONDS) =>
                    timeout_seconds = int(environ[AUTH_TIMEOUT_SECONDS].value).value
              /\ args.poll_interval_seconds.given =>
                    poll_interval_seconds = args.poll_interval_seconds.value
              /\ FromDefault("poll_interval_seconds", AUTH_POLL_INTERVAL_SECONDS) =>
                    poll_interval_seconds = 2
              /\ FromEnv("poll_interval_seconds", AUTH_POLL_INTERVAL_SECONDS) =>
                    poll_interval_seconds
                        = float(environ[AUTH_POLL_INTERVAL_SECONDS].value).value
              /\ args.start_auth_server.given =>
                    start_auth_server = args.start_auth_server.value
              /\ FromDefault("start_auth_server", START_AUTH_SERVER) =>
                    start_auth_server
              /\ FromEnv("start_auth_server", START_AUTH_SERVER) =>
                    start_auth_server = ~SpellsFalse(environ[START_AUTH_SERVER].value)
              /\ args.browser_open.given => browser_open = args.browser_open.value
              /\ FromDefault("browser_open", BROWSER_OPEN) => browser_open
              /\ FromEnv("browser_open", BROWSER_OPEN) =>
                    browser_open = ~SpellsFalse(environ[BROWSER_OPEN].value)

\* C14 witness: constructed with timeout_seconds = 0 while AUTH_TIMEOUT_SECONDS
\* holds no number, and without start_auth_server while START_AUTH_SERVER is
\* "False": the timeout is 0 and startAuthServer is false.
C14_Witness ==
    /\ AfterConstructor
    /\ pc = "done"
    /\ result = "returned"
    /\ args.timeout_seconds.given
    /\ environ[AUTH_TIMEOUT_SECONDS] = SetTo(<<"x">>)
    /\ timeout_seconds = 0
    /\ ~args.start_auth_server.given
    /\ environ[START_AUTH_SERVER] = SetTo(<<"F", "a", "l", "s", "e">>)
    /\ ~start_auth_server
    /\ ~args.poll_interval_seconds.given
    /\ poll_interval_seconds = 2

\* C15: status_text is the text of the latest status check that returned.  The
\* call has returned exactly when that text contains "Authenticated", so no
\* status check of a call that goes on or times out has reported it; a return
\* follows the initial check or a polled one (never the "authenticate" call,
\* whatever its text), also when the polled check ends past the deadline; the
\* timeout failure is raised only at or past the deadline.
C15_SoleSuccessSignal ==
    InCall =>
        /\ (result = "returned") = Contains(status_text, MARKER)
        /\ result = "returned" =>
              /\ pc = "done"
              /\ \/ effects = SetToBag({CALL_STATUS})
                 \/ /\ Polls > 0
                    /\ StatusCalls = Polls + 1
                    /\ Count(log, LOG_COMPLETED) = 1
        /\ result # "returned" => Count(log, LOG_COMPLETED) = 0
        /\ result = "TimeoutError" =>
              /\ pc = "done"
              /\ Elapsed >= timeout_seconds

\* C15 witness: the "authenticate" call was made, a first poll raised, and the
\* second polled check, which ended past the deadline, reported "Authenticated":
\* the call has returned.
C15_Witness ==
    /\ Ended
    /\ result = "returned"
    /\ Polls = 2
    /\ Count(effects, RAISE_STATUS) = 1
    /\ Contains(status_text, MARKER)
    /\ Elapsed > timeout_seconds
    /\ timeout_seconds > 0

\* a step that ends a polled status check
PollEnds == InCall /\ pc = "poll" /\ pc' # "poll"

\* C16: a polled status check that raises never ends the call in success and
\* leaves status_text as it was.  Whether the check raised or returned a text
\* without "Authenticated", what comes next depends on the clock alone: the time
\* the check took is all the time the iteration adds to its sleep, and the loop
\* goes on with the next sleep when the elapsed time is below timeoutSeconds and
\* raises the timeout failure otherwise.  So the number of iterations before the
\* timeout failure depends on the clock only: n iterations take at least n
\* sleeps and at most n sleeps and n longest checks.
C16_RaisingPollLikeUnauthenticated ==
    [][ /\ (PollEnds /\ Count(effects', RAISE_STATUS) > Count(effects, RAISE_STATUS)) =>
              /\ result' # "returned"
              /\ status_text' = status_text
              /\ Count(log', LOG_POLL_FAILED) = Count(log, LOG_POLL_FAILED) + 1
        /\ (PollEnds /\ result' # "returned") =>
              /\ now' = now + call_dur'
              /\ call_dur' \in CallDurs
              /\ start' = start
              /\ Polls' = Polls
              /\ IF now' - start' < timeout_seconds
                    THEN pc' = "sleep" /\ result' = "none"
                    ELSE pc' = "done" /\ result' = "TimeoutError"
              /\ now' - start' >= Polls' * poll_interval_seconds
              /\ now' - start' <= Polls' * (poll_interval_seconds + MaxCallDur) ]_vars

\* C16 witness: the initial check returned, two polls raised without taking
\* time, and the call has ended in the timeout failure.
C16_Witness ==
    /\ Ended
    /\ result = "TimeoutError"
    /\ Polls = 2
    /\ StatusCalls = 3
    /\ Count(effects, RAISE_STATUS) = 2
    /\ Elapsed = 2 * poll_interval_seconds

\* _contents_to_text has run (in the second specification)
AfterExtract == op = "_contents_to_text" /\ pc = "done"

\* the fragments of the response: none when it has no content
Fragments == IF response.has_content THEN response.content ELSE <<>>

HasTextTag(c) == c.type = "text"
HasTextTagAndValue(c) == c.type = "text" /\ c.has_text
\* a mapping with type "text", or an object with type "text" and a text attribute
IsKept(c) == c.type = "text" /\ (c.style = "dict" \/ c.has_text)

\* the text value of a fragment, empty when it has none
TextValue(c) == IF c.has_text THEN c.text ELSE <<>>

RECURSIVE JoinedValues(_)
\* the text values of fs in order, a newline between two neighbours
JoinedValues(fs) ==
    IF fs = <<>> THEN <<>>
    ELSE IF Len(fs) = 1 THEN TextValue(fs[1])
    ELSE JoinedValues(SubSeq(fs, 1, Len(fs) - 1)) \o <<NL>> \o TextValue(fs[Len(fs)])

Newlines(s) == Cardinality({i \in 1 .. Len(s) : s[i] = NL})

\* C17 as stated: the result is the newline-joined text values of exactly the
\* fragments whose type tag is "text", whether a tagged fragment that has no
\* text value is read as one with an empty value or as one that is not textual.
C17_Original ==
    AfterExtract =>
        \/ extracted = JoinedValues(SelectSeq(Fragments, HasTextTag))
        \/ extracted = JoinedValues(SelectSeq(Fragments, HasTextTagAndValue))

\* C17 amended: the result is the newline-joined concatenation, in the original
\* order, of the text values of exactly these fragments: the attribute-style
\* ones whose type is "text" and that have a text attribute, and the
\* mapping-style ones whose type is "text", with the empty string for a mapping
\* that has no "text" key.  It is empty for an empty sequence, for no content
\* and when no fragment is kept; a fragment that is not kept adds nothing, not
\* even a separator.
C17_TextExtraction ==
    AfterExtract =>
        LET kept == SelectSeq(Fragments, IsKept)
        IN  /\ result = "returned"
            /\ extracted = JoinedValues(kept)
            /\ kept = <<>> => extracted = <<>>
            /\ kept # <<>> => Newlines(extracted) = Len(kept) - 1

\* C17 witness: of a mapping with type "text" and no "text" key, an image and a
\* text fragment "a", the extracted text is an empty line and "a".
C17_Witness ==
    /\ AfterExtract
    /\ response = Resp(<<DictNoText, IMAGE, Text(<<"a">>)>>)
    /\ extracted = <<NL, "a">>

\* a step that is a helper launch in an environment (in the second specification)
LaunchInEnv == op = "_start_auth_server_if_available" /\ pc = "new" /\ pc' = "done"

\* what the helper gets under the name target, which is filled from source
FilledFrom(target, source) ==
    IF environ[target].given THEN environ[target]
    ELSE IF environ[source].given THEN SetTo(environ[source].value)
    ELSE SetTo(<<>>)

\* C18: the environment handed to the spawned helper is the inherited one, except
\* that MS_CLIENT_ID and MS_CLIENT_SECRET, when unset, are set to the values of
\* OUTLOOK_CLIENT_ID and OUTLOOK_CLIENT_SECRET (to the empty string when these
\* are unset too): a target that is set, be it to the empty string, keeps its
\* value, every other variable is passed as it is, set or unset, and the launch
\* leaves the coordinator's own environment as it was, also when the spawn
\* raises or the script is absent.
C18_HelperEnvironment ==
    [][ LaunchInEnv =>
          /\ environ' = environ
          /\ Count(effects', POPEN) = 0 => popen_env' = popen_env
          /\ Count(effects', POPEN) = 1 =>
                /\ popen_env'[MS_CLIENT_ID] = FilledFrom(MS_CLIENT_ID, OUTLOOK_CLIENT_ID)
                /\ popen_env'[MS_CLIENT_SECRET]
                       = FilledFrom(MS_CLIENT_SECRET, OUTLOOK_CLIENT_SECRET)
                /\ \A n \in EnvNames \ {MS_CLIENT_ID, MS_CLIENT_SECRET} :
                       popen_env'[n] = environ[n] ]_vars

\* C18 witness: the helper was spawned where MS_CLIENT_ID and OUTLOOK_CLIENT_ID
\* were both set, MS_CLIENT_SECRET was unset and OUTLOOK_CLIENT_SECRET set: it
\* got MS_CLIENT_ID as it was and the secret of OUTLOOK_CLIENT_SECRET, and the
\* coordinator's MS_CLIENT_SECRET is still unset.
C18_Witness ==
    /\ op = "_start_auth_server_if_available"
    /\ pc = "done"
    /\ Count(effects, POPEN) = 1
    /\ auth_server_process = "running"
    /\ environ[OUTLOOK_CLIENT_ID] = SetTo(<<"a">>)
    /\ environ[MS_CLIENT_ID] = SetTo(<<"c">>)
    /\ popen_env[MS_CLIENT_ID] = SetTo(<<"c">>)
    /\ environ[OUTLOOK_CLIENT_SECRET] = SetTo(<<"b">>)
    /\ ~environ[MS_CLIENT_SECRET].given
    /\ popen_env[MS_CLIENT_SECRET] = SetTo(<<"b">>)
    /\ environ[PATH].given
    /\ popen_env[PATH] = environ[PATH]

\* the least n with n * b >= a, for b > 0
CeilDiv(a, b) == (a + b - 1) \div b

\* no polled status check of the call took time
InstantChecks == Elapsed = Polls * poll_interval_seconds

\* C19: the deadline is tested before each sleep.  With timeoutSeconds <= 0 the
\* call ends in the timeout failure as soon as the authenticate phase is over,
\* without a sleep and without a polled status check.  With timeoutSeconds = T >
\* 0 and polled checks that take no time and never report "Authenticated", the
\* timeout failure comes after exactly ceil(T / P) polled status checks, at
\* least one, each after its sleep.
C19_DeadlineBeforeSleep ==
    /\ (InCall /\ timeout_seconds <= 0 /\ Count(effects, CALL_AUTHENTICATE) = 1) =>
          /\ pc = "done"
          /\ result = "TimeoutError"
          /\ Polls = 0
          /\ StatusCalls = 1
    /\ (InCall /\ timeout_seconds > 0 /\ pc = "authenticate") => Polls = 0
    /\ (InCall /\ timeout_seconds > 0 /\ Count(effects, CALL_AUTHENTICATE) = 1) =>
          Polls >= 1 \/ pc = "sleep"
    /\ (Ended /\ result = "TimeoutError" /\ timeout_seconds > 0 /\ InstantChecks) =>
          /\ Polls = CeilDiv(timeout_seconds, poll_interval_seconds)
          /\ Polls >= 1
          /\ StatusCalls = Polls + 1
    /\ (InCall /\ pc \in {"sleep", "poll"} /\ InstantChecks) =>
          Polls <= CeilDiv(timeout_seconds, poll_interval_seconds)

\* C19 witness: with a timeout of 3 and a poll interval of 2 the timeout failure
\* has come after two polled status checks that took no time.
C19_Witness ==
    /\ Ended
    /\ result = "TimeoutError"
    /\ timeout_seconds = 3
    /\ poll_interval_seconds = 2
    /\ InstantChecks
    /\ Polls = 2
    /\ StatusCalls = 3

\* C20: no step of ensure_authenticated requests the termination of the helper,
\* clears the handle or lets go of a running helper: a handle held when the call
\* begins, or acquired by its launch attempt, is held at every later step of the
\* call, its end included (the process of the handle may exit on its own).  The
\* handle is cleared by stop() only.  When startAuthServer is disabled the call
\* attempts no launch, spawns nothing and leaves the handle as it was.
C20_HandleKept ==
    [][ /\ InCall' =>
              /\ auth_server_process # NoProc => auth_server_process' # NoProc
              /\ Count(effects', TERMINATE) = 0
              /\ orphans' <= orphans
              /\ ~start_auth_server =>
                    /\ Count(effects', LAUNCH) = 0
                    /\ Count(effects', POPEN) = 0
                    /\ Live' <= Live
                    /\ \/ auth_server_process' = auth_server_process
                       \/ /\ auth_server_process = "running"
                          /\ auth_server_process' = "exited"
                          /\ effects' = effects
        /\ (auth_server_process # NoProc /\ auth_server_process' = NoProc) =>
              op' = "stop" ]_vars

\* C20 witness: a call that spawned the helper has ended in the timeout failure
\* after two polls and the handle is held, its process running.
C20_Witness ==
    /\ Ended
    /\ result = "TimeoutError"
    /\ Polls = 2
    /\ Count(effects, POPEN) = 1
    /\ Count(effects, RAISE_POPEN) = 0
    /\ auth_server_process = "running"

====
